---- MODULE Spec2Model ----
(***************************************************************************)
(* Model of csv_to_json.py: csv_to_json(csv_file, json_file) checks that   *)
(* the input exists, reads it with csv.DictReader into a list of dicts,    *)
(* writes the list with json.dump(ensure_ascii=False, indent=2) and        *)
(* reports the row count.                                                  *)
(*                                                                         *)
(* File contents are sequences of characters (one-character strings, plus  *)
(* the JSON literal null as one token).  A cell is a sequence of           *)
(* characters.  A Python dict is a sequence of key/value entries in        *)
(* insertion order with unique keys.                                       *)
(***************************************************************************)
EXTENDS Integers, Sequences, FiniteSets, TLC

\* ---------------------------------------------------------------- bounds
MaxLines == 3       \* lines of the input file (header included)
MaxCells == 2       \* cells on one line of the input file
MaxInputCells == 4  \* cells in the whole input file
MaxRuns  == 2       \* invocations of csv_to_json in one behaviour

\* ------------------------------------------------------------- constants
CSV_FILE  == "marketdata.csv"
JSON_FILE == "marketdata.json"

\* text of the cells the input files are built from
CellTexts == { <<"a">>, <<" ", "1">> }

\* content the output file may hold before the first run
OldContent == <<"o", "l", "d">>

\* ------------------------------------------------------ sequence helpers
RECURSIVE JoinWith(_, _)
JoinWith(ss, sep) ==
    IF ss = <<>> THEN <<>>
    ELSE IF Len(ss) = 1 THEN Head(ss)
    ELSE Head(ss) \o sep \o JoinWith(Tail(ss), sep)

RECURSIVE SplitOn(_, _)
\* the segments of s between occurrences of the character sep
SplitOn(s, sep) ==
    IF \A i \in 1..Len(s) : s[i] # sep THEN << s >>
    ELSE LET p == CHOOSE i \in 1..Len(s) :
                     s[i] = sep /\ \A k \in 1..(i-1) : s[k] # sep
         IN  << SubSeq(s, 1, p-1) >> \o SplitOn(SubSeq(s, p+1, Len(s)), sep)

RECURSIVE SelectNonEmpty(_)
SelectNonEmpty(rows) ==
    IF rows = <<>> THEN <<>>
    ELSE IF Head(rows) = <<>> THEN SelectNonEmpty(Tail(rows))
    ELSE << Head(rows) >> \o SelectNonEmpty(Tail(rows))

IsPrefix(s, t) == Len(s) <= Len(t) /\ SubSeq(t, 1, Len(s)) = s

\* ------------------------------------------------------------ input files
\* the text of a file made of the given lines, each a sequence of cells;
\* lines are separated by newlines, so a file that ends with a newline is
\* one whose last line is empty
RenderCsv(lines) ==
    JoinWith([i \in 1..Len(lines) |-> JoinWith(lines[i], <<",">>)], <<"\n">>)

LineSet == UNION { [1..n -> CellTexts] : n \in 0..MaxCells }
RECURSIVE TotalCells(_)
TotalCells(lines) ==
    IF lines = <<>> THEN 0 ELSE Len(Head(lines)) + TotalCells(Tail(lines))

InputLines == { ls \in UNION { [1..n -> LineSet] : n \in 0..MaxLines } :
                   TotalCells(ls) <= MaxInputCells }
InputTexts == { RenderCsv(ls) : ls \in InputLines }

Absent == [exists |-> FALSE, content |-> <<>>]
File(text) == [exists |-> TRUE, content |-> text]

\* ------------------------------------------------------------- csv.reader
\* csv.reader (excel dialect, newline=""): one row per line, an empty line
\* gives the empty row, a final line needs no terminator
ReaderRows(text) ==
    LET segs  == SplitOn(text, "\n")
        lines == IF segs[Len(segs)] = <<>> THEN SubSeq(segs, 1, Len(segs)-1)
                 ELSE segs
    IN  [i \in 1..Len(lines) |->
            IF lines[i] = <<>> THEN <<>> ELSE SplitOn(lines[i], ",")]

\* --------------------------------------------------------- Python values
StrVal(s)   == [t |-> "str",  s |-> s,    l |-> <<>>]
NoneVal     == [t |-> "none", s |-> <<>>, l |-> <<>>]
ListVal(cs) == [t |-> "list", s |-> <<>>, l |-> cs]

Entry(k, v) == [k |-> k, v |-> v]

HasKey(d, k) == \E i \in 1..Len(d) : d[i].k = k

\* d[k] = v : an existing key keeps its position and takes the new value
DictSet(d, k, v) ==
    IF HasKey(d, k)
    THEN [i \in 1..Len(d) |-> IF d[i].k = k THEN Entry(k, v) ELSE d[i]]
    ELSE Append(d, Entry(k, v))

DictGet(d, k) == d[CHOOSE i \in 1..Len(d) : d[i].k = k].v

Keys(d) == { d[i].k : i \in 1..Len(d) }

Min(a, b) == IF a <= b THEN a ELSE b

RECURSIVE DictZip(_, _, _, _)
\* dict(zip(fieldnames, row)): the pairs from position j on are stored into d
DictZip(d, fieldnames, row, j) ==
    IF j > Min(Len(fieldnames), Len(row)) THEN d
    ELSE DictZip(DictSet(d, StrVal(fieldnames[j]), StrVal(row[j])),
                 fieldnames, row, j + 1)

RECURSIVE FillRest(_, _, _)
\* for key in fieldnames[lr:]: d[key] = restval     (restval is None)
FillRest(d, fieldnames, j) ==
    IF j > Len(fieldnames) THEN d
    ELSE FillRest(DictSet(d, StrVal(fieldnames[j]), NoneVal), fieldnames, j + 1)

\* DictReader.__next__ for one non-empty row          (restkey is None)
RowDict(fieldnames, row) ==
    LET d  == DictZip(<<>>, fieldnames, row, 1)
        lf == Len(fieldnames)
        lr == Len(row)
    IN  IF lf < lr THEN DictSet(d, NoneVal, ListVal(SubSeq(row, lf + 1, lr)))
        ELSE IF lf > lr THEN FillRest(d, fieldnames, lr + 1)
        ELSE d

RECURSIVE Reverse(_)
Reverse(q) == IF q = <<>> THEN <<>> ELSE Append(Reverse(Tail(q)), Head(q))

\* variant of DictReader: the records come out last row first
DictReaderReversed(text) ==
    LET rows == ReaderRows(text)
    IN  IF rows = <<>> THEN <<>>
        ELSE LET body == Reverse(SelectNonEmpty(Tail(rows)))
             IN  [i \in 1..Len(body) |-> RowDict(Head(rows), body[i])]

\* [row for row in csv.DictReader(f)]: the first row of the reader gives
\* the field names, empty rows after it are skipped
DictReader(text) ==
    LET rows == ReaderRows(text)
    IN  IF rows = <<>> THEN <<>>
        ELSE LET body == SelectNonEmpty(Tail(rows))
             IN  [i \in 1..Len(body) |-> RowDict(Head(rows), body[i])]

\* -------------------------------------------------------------- json.dump
RECURSIVE Indent(_)
Indent(n) == IF n = 0 THEN <<>> ELSE <<" ", " ">> \o Indent(n - 1)

NewlineIndent(n) == <<"\n">> \o Indent(n)

\* a string literal; the characters of the model need no escaping and
\* ensure_ascii=False leaves every character as it is
JsonStr(s) == <<"\"">> \o s \o <<"\"">>

\* a dict key: None is written as the string "null"
JsonKey(k) == IF k.t = "none" THEN JsonStr(<<"n", "u", "l", "l">>)
              ELSE JsonStr(k.s)

JsonList(cs, lvl) ==
    IF cs = <<>> THEN <<"[", "]">>
    ELSE <<"[">> \o NewlineIndent(lvl + 1)
         \o JoinWith([i \in 1..Len(cs) |-> JsonStr(cs[i])],
                     <<",">> \o NewlineIndent(lvl + 1))
         \o NewlineIndent(lvl) \o <<"]">>

JsonValue(v, lvl) ==
    IF v.t = "str" THEN JsonStr(v.s)
    ELSE IF v.t = "none" THEN <<"null">>
    ELSE JsonList(v.l, lvl)

JsonDict(d, lvl) ==
    IF d = <<>> THEN <<"{", "}">>
    ELSE <<"{">> \o NewlineIndent(lvl + 1)
         \o JoinWith([i \in 1..Len(d) |->
                         JsonKey(d[i].k) \o <<":", " ">>
                             \o JsonValue(d[i].v, lvl + 1)],
                     <<",">> \o NewlineIndent(lvl + 1))
         \o NewlineIndent(lvl) \o <<"}">>

\* variant of JsonDump: the empty list is laid out like any other list
JsonDumpNoEmptyCase(data) ==
    <<"[">> \o NewlineIndent(1)
        \o JoinWith([i \in 1..Len(data) |-> JsonDict(data[i], 1)],
                    <<",">> \o NewlineIndent(1))
        \o NewlineIndent(0) \o <<"]">>

\* json.dump(data, f, ensure_ascii=False, indent=2)
JsonDump(data) ==
    IF data = <<>> THEN <<"[", "]">>
    ELSE <<"[">> \o NewlineIndent(1)
         \o JoinWith([i \in 1..Len(data) |-> JsonDict(data[i], 1)],
                     <<",">> \o NewlineIndent(1))
         \o NewlineIndent(0) \o <<"]">>

\* ------------------------------------------------------------------ state
VARIABLES
    inFile,     \* the file at csv_file: [exists, content]
    outFile,    \* the file at json_file: [exists, content]
    pc,         \* position of the current run of csv_to_json
    handles,    \* the open file handles: subset of {"in", "out"}
    outPos,     \* write position of the output handle
    data,       \* the local list data
    ret,        \* the value returned by the run; -1 while there is none
    console,    \* the lines printed by the run
    raised,     \* the step whose error left the run, "none" without one
    steps,      \* the steps the run has entered, in order
    outBefore,  \* the output file when the run started
    prev,       \* result of the run before: [ret, out]
    runs        \* number of runs started

vars == << inFile, outFile, pc, handles, outPos, data, ret, console, raised,
           steps, outBefore, prev, runs >>

NoPrev == [ret |-> -1, out |-> Absent]

ErrorLine(path) == [kind |-> "error", src |-> path, dst |-> "", count |-> 0]
SuccessLine(n, src, dst) == [kind |-> "ok", src |-> src, dst |-> dst, count |-> n]

Init ==
    /\ inFile \in {Absent} \cup { File(t) : t \in InputTexts }
    /\ outFile \in { Absent, File(<<>>), File(OldContent) }
    /\ pc = "check"
    /\ handles = {}
    /\ outPos = 0
    /\ data = <<>>
    /\ ret = -1
    /\ console = <<>>
    /\ raised = "none"
    /\ steps = <<>>
    /\ outBefore = outFile
    /\ prev = NoPrev
    /\ runs = 1

\* the bytes of a file after text is written at position pos
WriteAt(content, pos, text) ==
    SubSeq(content, 1, pos) \o text
        \o SubSeq(content, pos + Len(text) + 1, Len(content))

\* variant of CheckMissing: the output file is opened for writing before the
\* input is looked for
CheckMissingOpensOutput ==
    /\ pc = "check"
    /\ ~inFile.exists
    /\ outFile' = File(<<>>)
    /\ console' = Append(console, ErrorLine(CSV_FILE))
    /\ ret' = 1
    /\ pc' = "done"
    /\ steps' = Append(steps, "check")
    /\ UNCHANGED << inFile, handles, outPos, data, raised, outBefore, prev,
                    runs >>

\* lines 20-22: the input does not exist
CheckMissing ==
    /\ pc = "check"
    /\ ~inFile.exists
    /\ console' = Append(console, ErrorLine(CSV_FILE))
    /\ ret' = 1
    /\ pc' = "done"
    /\ steps' = Append(steps, "check")
    /\ UNCHANGED << inFile, outFile, handles, outPos, data, raised,
                    outBefore, prev, runs >>

\* variant of CheckExists: the output file is opened for writing before the
\* input is read
CheckExistsOpensOutput ==
    /\ pc = "check"
    /\ inFile.exists
    /\ outFile' = File(<<>>)
    /\ pc' = "open_in"
    /\ steps' = Append(steps, "check")
    /\ UNCHANGED << inFile, handles, outPos, data, ret, console, raised,
                    outBefore, prev, runs >>

\* line 20: the input exists
CheckExists ==
    /\ pc = "check"
    /\ inFile.exists
    /\ pc' = "open_in"
    /\ steps' = Append(steps, "check")
    /\ UNCHANGED << inFile, outFile, handles, outPos, data, ret, console,
                    raised, outBefore, prev, runs >>

\* line 26: open(csv_file)
OpenIn ==
    /\ pc = "open_in"
    /\ handles' = handles \cup {"in"}
    /\ pc' = "reading"
    /\ steps' = Append(steps, "read")
    /\ UNCHANGED << inFile, outFile, outPos, data, ret, console, raised,
                    outBefore, prev, runs >>

\* line 26: open(csv_file) raises (the file cannot be read)
OpenInFail ==
    /\ pc = "open_in"
    /\ raised' = "open_in"
    /\ pc' = "error"
    /\ steps' = Append(steps, "read")
    /\ UNCHANGED << inFile, outFile, handles, outPos, data, ret, console,
                    outBefore, prev, runs >>

\* lines 27-28: the whole input is read into data
ReadAll ==
    /\ pc = "reading"
    /\ data' = DictReader(inFile.content)
    /\ pc' = "close_in"
    /\ UNCHANGED << inFile, outFile, handles, outPos, ret, console, raised,
                    steps, outBefore, prev, runs >>

\* lines 26-28: reading raises; the with statement closes the handle
ReadFail ==
    /\ pc = "reading"
    /\ handles' = handles \ {"in"}
    /\ raised' = "read"
    /\ pc' = "error"
    /\ UNCHANGED << inFile, outFile, outPos, data, ret, console, steps,
                    outBefore, prev, runs >>

\* line 28: the end of the with block closes the input handle
CloseIn ==
    /\ pc = "close_in"
    /\ handles' = handles \ {"in"}
    /\ pc' = "open_out"
    /\ UNCHANGED << inFile, outFile, outPos, data, ret, console, raised,
                    steps, outBefore, prev, runs >>

\* variant of OpenOut: mode "a", the file keeps its content and is written
\* at its end
OpenOutAppend ==
    /\ pc = "open_out"
    /\ outFile' = File(outFile.content)
    /\ outPos' = Len(outFile.content)
    /\ handles' = handles \cup {"out"}
    /\ pc' = "writing"
    /\ steps' = Append(steps, "write")
    /\ UNCHANGED << inFile, data, ret, console, raised, outBefore, prev, runs >>

\* variant of OpenOut: the file is opened without truncation and written
\* from its start
OpenOutNoTruncate ==
    /\ pc = "open_out"
    /\ outFile' = File(outFile.content)
    /\ outPos' = 0
    /\ handles' = handles \cup {"out"}
    /\ pc' = "writing"
    /\ steps' = Append(steps, "write")
    /\ UNCHANGED << inFile, data, ret, console, raised, outBefore, prev, runs >>

\* line 32: open(json_file, "w") creates the file or truncates it
OpenOut ==
    /\ pc = "open_out"
    /\ outFile' = File(<<>>)
    /\ outPos' = 0
    /\ handles' = handles \cup {"out"}
    /\ pc' = "writing"
    /\ steps' = Append(steps, "write")
    /\ UNCHANGED << inFile, data, ret, console, raised, outBefore, prev, runs >>

\* line 32: open(json_file, "w") raises; the file is as it was
OpenOutFail ==
    /\ pc = "open_out"
    /\ raised' = "open_out"
    /\ pc' = "error"
    /\ steps' = Append(steps, "write")
    /\ UNCHANGED << inFile, outFile, handles, outPos, data, ret, console,
                    outBefore, prev, runs >>

\* line 33: json.dump writes the whole list
WriteAll ==
    /\ pc = "writing"
    /\ LET text == JsonDump(data)
       IN  /\ outFile' = File(WriteAt(outFile.content, outPos, text))
           /\ outPos' = outPos + Len(text)
    /\ pc' = "close_out"
    /\ UNCHANGED << inFile, handles, data, ret, console, raised, steps,
                    outBefore, prev, runs >>

\* variant of WriteFail: no with statement, the error leaves the handle open
WriteFailLeavesHandle ==
    /\ pc = "writing"
    /\ \E n \in 0..(Len(JsonDump(data)) - 1) :
          LET text == SubSeq(JsonDump(data), 1, n)
          IN  /\ outFile' = File(WriteAt(outFile.content, outPos, text))
              /\ outPos' = outPos + n
    /\ raised' = "write"
    /\ pc' = "error"
    /\ UNCHANGED << inFile, handles, data, ret, console, steps, outBefore,
                    prev, runs >>

\* line 33: json.dump raises after part of the text went out; the with
\* statement closes the handle and nothing removes the partial file
WriteFail ==
    /\ pc = "writing"
    /\ \E n \in 0..(Len(JsonDump(data)) - 1) :
          LET text == SubSeq(JsonDump(data), 1, n)
          IN  /\ outFile' = File(WriteAt(outFile.content, outPos, text))
              /\ outPos' = outPos + n
    /\ handles' = handles \ {"out"}
    /\ raised' = "write"
    /\ pc' = "error"
    /\ UNCHANGED << inFile, data, ret, console, steps, outBefore, prev, runs >>

\* line 33: the end of the with block closes the output handle
CloseOut ==
    /\ pc = "close_out"
    /\ handles' = handles \ {"out"}
    /\ pc' = "report"
    /\ UNCHANGED << inFile, outFile, outPos, data, ret, console, raised,
                    steps, outBefore, prev, runs >>

\* lines 36-37: the success line and return 0
Report ==
    /\ pc = "report"
    /\ console' = Append(console, SuccessLine(Len(data), CSV_FILE, JSON_FILE))
    /\ ret' = 0
    /\ pc' = "done"
    /\ steps' = Append(steps, "report")
    /\ UNCHANGED << inFile, outFile, handles, outPos, data, raised,
                    outBefore, prev, runs >>

\* lines 42-44: after a run that returned, the script is run again; the
\* input file is as it was
RunAgain ==
    /\ pc = "done"
    /\ runs < MaxRuns
    /\ runs' = runs + 1
    /\ prev' = [ret |-> ret, out |-> outFile]
    /\ outBefore' = outFile
    /\ pc' = "check"
    /\ outPos' = 0
    /\ data' = <<>>
    /\ ret' = -1
    /\ console' = <<>>
    /\ raised' = "none"
    /\ steps' = <<>>
    /\ UNCHANGED << inFile, outFile, handles >>

Next ==
    \/ CheckMissing
    \/ CheckExists
    \/ OpenIn
    \/ OpenInFail
    \/ ReadAll
    \/ ReadFail
    \/ CloseIn
    \/ OpenOut
    \/ OpenOutFail
    \/ WriteAll
    \/ WriteFail
    \/ CloseOut
    \/ Report
    \/ RunAgain

Spec == Init /\ [][Next]_vars

\* ------------------------------------------------ vocabulary of the claims
Returned0 == pc = "done" /\ ret = 0

Rows     == ReaderRows(inFile.content)
Header   == Rows[1]
DataRows == Tail(Rows)

HasHeader     == inFile.exists /\ Rows # <<>> /\ Header # <<>>
NoEmptyLine   == \A i \in 1..Len(DataRows) : DataRows[i] # <<>>
DistinctNames == \A j, k \in 1..Len(Header) : Header[j] = Header[k] => j = k
LastOf(j)     == \A k \in (j+1)..Len(Header) : Header[k] # Header[j]

HeaderKeys == { StrVal(Header[j]) : j \in 1..Len(Header) }

\* record d holds the cells of row r: under each field name the cell at the
\* last position of that name, and the cells beyond the header under None
FromRow(d, r) ==
    /\ \A j \in 1..Min(Len(Header), Len(r)) :
          LastOf(j) => /\ HasKey(d, StrVal(Header[j]))
                       /\ DictGet(d, StrVal(Header[j])) = StrVal(r[j])
    /\ Len(r) > Len(Header) =>
          /\ HasKey(d, NoneVal)
          /\ DictGet(d, NoneVal) = ListVal(SubSeq(r, Len(Header) + 1, Len(r)))

\* ------------------------------------------------------------------ claims

\* C1: when the input path does not exist the run returns 1, prints one
\* error line naming the missing path, and the output file is what it was
\* before the call, whatever it was.
C1_MissingInputLeavesOutput ==
    ~inFile.exists =>
        /\ outFile = outBefore
        /\ pc = "done" => /\ ret = 1
                          /\ console = << ErrorLine(CSV_FILE) >>

C1_Witness ==
    /\ pc = "done"
    /\ ~inFile.exists
    /\ ret = 1
    /\ outFile = File(OldContent)

\* C2: a successful run on a file with header H and N data rows writes
\* exactly N objects, each with key set exactly H.  Stated here for the
\* files with a non-empty header line and no empty line among the data rows.
C2_CountAndKeySet ==
    (Returned0 /\ HasHeader /\ NoEmptyLine) =>
        /\ Len(data) = Len(DataRows)
        /\ \A i \in 1..Len(data) : Keys(data[i]) = HeaderKeys

\* C3: after a successful run every field value of every object is a string
\* and equals the text of the corresponding cell.  Stated here for the files
\* with distinct field names and no empty line among the data rows.
C3_ValuesAreCellText ==
    (Returned0 /\ HasHeader /\ DistinctNames /\ NoEmptyLine) =>
        /\ Len(data) = Len(DataRows)
        /\ \A i \in 1..Len(data) :
              /\ \A e \in 1..Len(data[i]) : data[i][e].v.t = "str"
              /\ \A j \in 1..Len(Header) :
                    /\ HasKey(data[i], StrVal(Header[j]))
                    /\ j <= Len(DataRows[i])
                    /\ DictGet(data[i], StrVal(Header[j]))
                           = StrVal(DataRows[i][j])

\* C4: the records are in the order of the data rows they come from (the
\* i-th record holds the cells of the i-th non-empty data row), the list is
\* not changed between the read step and the write step, and the output of
\* a successful run is that list.
C4_OrderPreserved ==
    /\ (pc \in {"close_in", "open_out", "writing", "close_out", "report"}
           \/ Returned0 \/ raised \in {"open_out", "write"}) =>
          LET body == SelectNonEmpty(IF Rows = <<>> THEN <<>> ELSE DataRows)
          IN  /\ Len(data) = Len(body)
              /\ \A i \in 1..Len(data) : FromRow(data[i], body[i])
    /\ Returned0 => outFile.content = JsonDump(data)

C4_Witness ==
    /\ Returned0
    /\ Len(data) = 2
    /\ data[1] # data[2]

\* C5: a second run on the unchanged input leaves the output file with the
\* content the first run left, and a run on an existing input that returns
\* returns 0.
C5_Idempotent ==
    /\ (pc = "done" /\ inFile.exists) => ret = 0
    /\ (Returned0 /\ prev.ret = 0) => outFile = prev.out

C5_Witness ==
    /\ Returned0
    /\ runs = 2
    /\ prev.ret = 0
    /\ Len(data) >= 1

\* C6: when the input holds a header row and no data row, the run writes
\* the empty array [], reports a count of 0 and returns 0.
C6_ZeroRows ==
    (pc = "done" /\ HasHeader /\ Len(Rows) = 1) =>
        /\ outFile = File(<<"[", "]">>)
        /\ console = << SuccessLine(0, CSV_FILE, JSON_FILE) >>
        /\ ret = 0

C6_Witness ==
    /\ pc = "done"
    /\ HasHeader
    /\ Len(Rows) = 1
    /\ Len(Header) = 2
    /\ outFile.content = <<"[", "]">>

\* C7: after a successful run the output file is determined by the input
\* file alone, whatever the output file was before; nothing of the earlier
\* content remains.
C7_OverwrittenUnconditionally ==
    Returned0 => outFile = File(JsonDump(DictReader(inFile.content)))

C7_Witness ==
    /\ Returned0
    /\ outBefore = File(OldContent)
    /\ Len(outFile.content) < Len(OldContent)

\* C8: at most one file handle is open at any time, the input handle is open
\* only within the read step and the output handle only within the write
\* step, and no handle is open once the run has returned or raised.
C8_HandlesScoped ==
    /\ Cardinality(handles) <= 1
    /\ "in" \in handles => pc \in {"reading", "close_in"}
    /\ "out" \in handles => pc \in {"writing", "close_out"}
    /\ pc \in {"done", "error"} => handles = {}

C8_Witness ==
    /\ pc = "error"
    /\ raised = "write"
    /\ handles = {}
    /\ Len(outFile.content) > 0

\* C9: a run is the sequence check, read, write, report, each step entered
\* at most once and in this order, and the missing input is the only return
\* before the end; the output file is untouched until the write step is
\* entered, which is after the whole input is in data and the input handle
\* is closed, so an error in the read step leaves the output file as it was.
C9_LinearSequence ==
    /\ IsPrefix(steps, <<"check", "read", "write", "report">>)
    /\ pc = "done" => \/ steps = <<"check", "read", "write", "report">> /\ ret = 0
                      \/ steps = <<"check">> /\ ret = 1 /\ ~inFile.exists
    /\ pc \in {"check", "open_in", "reading", "close_in", "open_out"} =>
          outFile = outBefore
    /\ raised \in {"open_in", "read", "open_out"} => outFile = outBefore
    /\ Len(steps) >= 3 => /\ "in" \notin handles
                          /\ data = DictReader(inFile.content)

\* an error in the write step has left the output file truncated and partial
C9_Witness ==
    /\ pc = "error"
    /\ raised = "write"
    /\ outBefore = File(OldContent)
    /\ outFile # outBefore
    /\ outFile.content # JsonDump(data)
    /\ Len(outFile.content) > 0

\* C10: when the header names a field at positions j < k, each object holds
\* that key once with the text of cell k of the row as its value, the object
\* has as many keys as the header has distinct names, and there are as many
\* objects as data rows.
C10_LastValueWins ==
    (Returned0 /\ HasHeader /\ ~DistinctNames /\ NoEmptyLine) =>
        /\ Len(data) = Len(DataRows)
        /\ \A i \in 1..Len(data) :
              /\ Cardinality(Keys(data[i])) = Cardinality(HeaderKeys)
              /\ \A j, k \in 1..Len(Header) :
                    (j < k /\ Header[j] = Header[k] /\ LastOf(k)) =>
                        /\ Cardinality({ e \in 1..Len(data[i]) :
                               data[i][e].k = StrVal(Header[k]) }) = 1
                        /\ k <= Len(DataRows[i])
                        /\ DictGet(data[i], StrVal(Header[k]))
                               = StrVal(DataRows[i][k])

====
